---- MODULE Spec2Model ----
(***************************************************************************)
(* The save-time synchronisation hooks of the admin panel                  *)
(* (soulseer/admin-panel/readers/admin.py) over the record store declared  *)
(* in soulseer/admin-panel/readers/models.py.                              *)
(*                                                                         *)
(* Strings that only need truthiness and equality (stripe_product_id) are  *)
(* sequences: <<>> is the blank string '', <<n>> is the id of the n-th     *)
(* product resource the payment provider created.  A Decimal is the pair   *)
(* of its coefficient and its number of decimal places, as decimal.Decimal *)
(* keeps it: Decimal('9.99') is [coef |-> 999, places |-> 2].              *)
(***************************************************************************)
EXTENDS Integers, Sequences, FiniteSets, TLC

VARIABLES
    products,        \* the Product table: products[pk] is the row with primary key pk
    stripeProducts,  \* product resources the payment provider holds, in creation order
    stripePrices,    \* price resources the payment provider holds, in creation order
    readers,         \* the ReaderProfile table: readers[pk]
    requests,        \* provisioning requests issued to the backend, in order
    last             \* the most recent save_model call: arguments, calls made, outcome

vars == <<products, stripeProducts, stripePrices, readers, requests, last>>

----------------------------------------------------------------------------
(* Bounds of the model *)

MaxProducts == 2
MaxReaders == 2
MaxStripeProducts == 2
MaxPriceCoef == 1000

(* Program constants *)

DecimalPlaces == 2
CentsFactor == 100
HttpCreated == 201

----------------------------------------------------------------------------
(* decimal.Decimal arithmetic used by the hooks *)

RECURSIVE Pow10(_)
Pow10(n) == IF n = 0 THEN 1 ELSE 10 * Pow10(n - 1)

\* Decimal * int: the coefficient is multiplied, the exponent is kept.
DecimalMul(d, n) == [coef |-> d.coef * n, places |-> d.places]

\* int(Decimal): truncation toward zero (coefficients here are >= 0).
DecimalToInt(d) == d.coef \div Pow10(d.places)

\* int(price) * 100: truncates the cents away before scaling.
UnitAmountTruncFirst(price) == DecimalToInt(price) * CentsFactor

\* int(obj.price * 100)
UnitAmount(price) == DecimalToInt(DecimalMul(price, CentsFactor))

\* float(Decimal) as the JSON body carries it: the shortest numeral of the
\* value, i.e. the decimal without its trailing zeros (3.00 -> 3.0).  A
\* DecimalField(max_digits=10) value has at most 10 significant digits, which a
\* double holds and repr() gives back.
RECURSIVE Normalize(_)
Normalize(d) ==
    IF d.places > 0 /\ d.coef % 10 = 0
    THEN Normalize([coef |-> d.coef \div 10, places |-> d.places - 1])
    ELSE d

DecimalToFloat(d) == Normalize(d)

----------------------------------------------------------------------------
(* Input domains *)

ProductNames == {"candle", "reading"}

SmallPrices == {[coef |-> 999, places |-> 2], [coef |-> 25, places |-> 1]}

AllPrices == {[coef |-> c, places |-> p] : c \in 1..MaxPriceCoef, p \in 0..DecimalPlaces}

BlankId == <<>>

----------------------------------------------------------------------------
(* Product: the record store *)

\* Product(): a fresh in-memory record carrying the form's fields;
\* stripe_product_id is a CharField without default, hence ''.
NewProduct(form) ==
    [stripe_product_id |-> BlankId, name |-> form.name, price |-> form.price]

\* The admin change form applied to a stored row: stripe_product_id is in
\* readonly_fields, so the form never writes it.
EditedProduct(row, form) ==
    [row EXCEPT !.name = form.name, !.price = form.price]

\* The database's unique index on stripe_product_id: any other row holding the
\* same value, '' included (blank=True without null=True stores '').
ProductUniqueViolation(store, pk, obj) ==
    \E q \in 1..Len(store) :
        q # pk /\ store[q].stripe_product_id = obj.stripe_product_id

\* super().save_model -> obj.save(): INSERT (pk = 0, not stored yet) or UPDATE.
\* An IntegrityError leaves the table as it was.
ProductModelSave(store, pk, obj) ==
    IF ProductUniqueViolation(store, pk, obj)
    THEN [store |-> store, pk |-> pk, raised |-> TRUE]
    ELSE IF pk = 0
         THEN [store |-> Append(store, obj), pk |-> Len(store) + 1, raised |-> FALSE]
         ELSE [store |-> [store EXCEPT ![pk] = obj], pk |-> pk, raised |-> FALSE]

----------------------------------------------------------------------------
(* Product: the payment-catalog hook *)

NeedsSyncAlways(obj) == TRUE

\* if not obj.stripe_product_id
NeedsSync(obj) == Len(obj.stripe_product_id) = 0

Call(name, ok) == [call |-> name, ok |-> ok]

\* The id is written back without the price having been created.
StripeSyncAssignEarly(obj, productOk, priceOk) ==
    IF ~NeedsSync(obj) \/ ~productOk
    THEN [obj |-> obj, products |-> <<>>, prices |-> <<>>, raised |-> FALSE,
          events |-> IF NeedsSync(obj) THEN <<Call("Product.create", FALSE)>> ELSE <<>>]
    ELSE LET product == [id |-> <<Len(stripeProducts) + 1>>, name |-> obj.name]
         IN [obj |-> [obj EXCEPT !.stripe_product_id = product.id],
             products |-> <<product>>,
             prices |-> IF priceOk
                        THEN <<[product |-> product.id,
                                unit_amount |-> UnitAmount(obj.price),
                                currency |-> "usd"]>>
                        ELSE <<>>,
             raised |-> FALSE,
             events |-> <<Call("Product.create", TRUE), Call("Price.create", priceOk)>>]

\* The id is never written back to the record.
StripeSyncNoAssign(obj, productOk, priceOk) ==
    IF ~NeedsSync(obj) \/ ~productOk
    THEN [obj |-> obj, products |-> <<>>, prices |-> <<>>, raised |-> FALSE,
          events |-> IF NeedsSync(obj) THEN <<Call("Product.create", FALSE)>> ELSE <<>>]
    ELSE LET product == [id |-> <<Len(stripeProducts) + 1>>, name |-> obj.name]
         IN [obj |-> obj,
             products |-> <<product>>,
             prices |-> IF priceOk
                        THEN <<[product |-> product.id,
                                unit_amount |-> UnitAmount(obj.price),
                                currency |-> "usd"]>>
                        ELSE <<>>,
             raised |-> FALSE,
             events |-> <<Call("Product.create", TRUE), Call("Price.create", priceOk)>>]

\* The try block of ProductAdmin.save_model.  productOk / priceOk: whether
\* stripe.Product.create / stripe.Price.create return or raise.  The result is
\* the in-memory record after the block, the resources the provider created,
\* the calls made, and whether an exception leaves the block (never: except
\* Exception prints and goes on).
StripeSync(obj, productOk, priceOk) ==
    IF ~NeedsSync(obj)
    THEN [obj |-> obj, products |-> <<>>, prices |-> <<>>, raised |-> FALSE,
          events |-> <<>>]
    ELSE IF ~productOk
    THEN [obj |-> obj, products |-> <<>>, prices |-> <<>>, raised |-> FALSE,
          events |-> <<Call("Product.create", FALSE)>>]
    ELSE LET product == [id |-> <<Len(stripeProducts) + 1>>, name |-> obj.name]
         IN IF ~priceOk
            THEN [obj |-> obj, products |-> <<product>>, prices |-> <<>>,
                  raised |-> FALSE,
                  events |-> <<Call("Product.create", TRUE), Call("Price.create", FALSE)>>]
            ELSE [obj |-> [obj EXCEPT !.stripe_product_id = product.id],
                  products |-> <<product>>,
                  prices |-> <<[product |-> product.id,
                                unit_amount |-> UnitAmount(obj.price),
                                currency |-> "usd"]>>,
                  raised |-> FALSE,
                  events |-> <<Call("Product.create", TRUE), Call("Price.create", TRUE)>>]

\* ProductAdmin.save_model(request, obj, form, change), the whole handler.
\* pk = 0 for a record not stored yet.  owner (not program state) remembers
\* for which row each product resource was created: the row the save was for,
\* 0 when that record never got a row.
ProductSaveModel(pk, obj, change, productOk, priceOk) ==
    /\ NeedsSync(obj) => Len(stripeProducts) < MaxStripeProducts
    /\ LET sync == StripeSync(obj, productOk, priceOk)
           saved == IF sync.raised
                    THEN [store |-> products, pk |-> pk, raised |-> TRUE]
                    ELSE ProductModelSave(products, pk, sync.obj)
           owner == saved.pk
       IN /\ products' = saved.store
          /\ stripeProducts' = stripeProducts \o
                 [i \in 1..Len(sync.products) |->
                     [id |-> sync.products[i].id, name |-> sync.products[i].name,
                      owner |-> owner]]
          /\ stripePrices' = stripePrices \o sync.prices
          /\ last' = [model |-> "Product", pk |-> owner, change |-> change,
                      arg |-> obj, obj |-> sync.obj,
                      outcome |-> [productOk |-> productOk, priceOk |-> priceOk],
                      events |-> IF sync.raised THEN sync.events
                                 ELSE Append(sync.events, Call("save", ~saved.raised)),
                      raised |-> saved.raised]
    /\ UNCHANGED <<readers, requests>>

\* What the payment provider may answer during one save: each call returns or
\* raises; Price.create is only reached when Product.create returned, and no
\* call is made for a record that carries an id.
StripeOutcomes(obj) ==
    IF NeedsSync(obj)
    THEN {[productOk |-> FALSE, priceOk |-> FALSE],
          [productOk |-> TRUE, priceOk |-> FALSE],
          [productOk |-> TRUE, priceOk |-> TRUE]}
    ELSE {[productOk |-> TRUE, priceOk |-> TRUE]}

\* The admin add view: a new Product built from the submitted form.
ProductAdd ==
    /\ Len(products) < MaxProducts
    /\ \E name \in ProductNames, price \in SmallPrices :
          LET obj == NewProduct([name |-> name, price |-> price])
          IN \E out \in StripeOutcomes(obj) :
                ProductSaveModel(0, obj, FALSE, out.productOk, out.priceOk)

\* The admin change view: a stored Product with the submitted form applied.
ProductChange ==
    \E pk \in 1..Len(products), name \in ProductNames, price \in SmallPrices :
          LET obj == EditedProduct(products[pk], [name |-> name, price |-> price])
          IN \E out \in StripeOutcomes(obj) :
                ProductSaveModel(pk, obj, TRUE, out.productOk, out.priceOk)

----------------------------------------------------------------------------
(* Product: one price, swept over every amount *)

\* The first Product ever saved, with any price of AllPrices.
PriceSweepAdd ==
    /\ products = <<>> /\ stripeProducts = <<>> /\ last.model = "none"
    /\ \E price \in AllPrices :
          LET obj == NewProduct([name |-> "candle", price |-> price])
          IN \E out \in StripeOutcomes(obj) :
                ProductSaveModel(0, obj, FALSE, out.productOk, out.priceOk)

\* The same Product saved again with the form unchanged.
PriceRetry ==
    \E pk \in 1..Len(products) :
        LET obj == EditedProduct(products[pk], [name |-> products[pk].name,
                                                  price |-> products[pk].price])
        IN \E out \in StripeOutcomes(obj) :
              ProductSaveModel(pk, obj, TRUE, out.productOk, out.priceOk)

----------------------------------------------------------------------------
(* Reader Profile: the record store *)

BlankClerkId == <<>>

\* '' is what the admin add form leaves in clerk_id (a readonly field); the
\* others are identifiers the identity provider issued.
ClerkIds == {BlankClerkId} \cup {<<"user", n>> : n \in 1..(MaxReaders - 1)}

Emails == {<<"mail", n>> : n \in 1..MaxReaders}

\* chat_rate, call_rate, video_rate: the model's defaults, and another card.
RateCards ==
    {[chat_rate |-> [coef |-> 299, places |-> 2],
      call_rate |-> [coef |-> 399, places |-> 2],
      video_rate |-> [coef |-> 499, places |-> 2]],
     [chat_rate |-> [coef |-> 300, places |-> 2],
      call_rate |-> [coef |-> 55, places |-> 1],
      video_rate |-> [coef |-> 10, places |-> 0]]}

\* ReaderProfile(): a fresh in-memory record.
NewReader(clerk_id, form) ==
    [clerk_id |-> clerk_id, email |-> form.email, display_name |-> "Ann",
     bio |-> "", specialties |-> <<"tarot">>,
     chat_rate |-> form.rates.chat_rate, call_rate |-> form.rates.call_rate,
     video_rate |-> form.rates.video_rate]

\* The admin change form applied to a stored row: clerk_id is in
\* readonly_fields, so the form never writes it.
EditedReader(row, form) ==
    [row EXCEPT !.email = form.email]

\* Only email is unique.
ReaderUniqueViolationEmailOnly(store, pk, obj) ==
    \E q \in 1..Len(store) : q # pk /\ store[q].email = obj.email

\* unique=True on clerk_id and on email.
ReaderUniqueViolation(store, pk, obj) ==
    \E q \in 1..Len(store) :
        q # pk /\ (store[q].clerk_id = obj.clerk_id \/ store[q].email = obj.email)

\* super().save_model -> obj.save(): INSERT (pk = 0) or UPDATE; an
\* IntegrityError leaves the table as it was.
ReaderModelSave(store, pk, obj) ==
    IF ReaderUniqueViolation(store, pk, obj)
    THEN [store |-> store, pk |-> pk, raised |-> TRUE]
    ELSE IF pk = 0
         THEN [store |-> Append(store, obj), pk |-> Len(store) + 1, raised |-> FALSE]
         ELSE [store |-> [store EXCEPT ![pk] = obj], pk |-> pk, raised |-> FALSE]

----------------------------------------------------------------------------
(* Reader Profile: the provisioning hook *)

\* What requests.post may do: answer 201, answer another status, or raise
\* (connection error, timeout).
Responses ==
    {[raises |-> FALSE, status_code |-> HttpCreated],
     [raises |-> FALSE, status_code |-> 500],
     [raises |-> TRUE, status_code |-> 0]}

ShouldProvisionAlways(change) == TRUE

\* if not change
ShouldProvision(change) == ~change

\* call_rate and video_rate swapped.
ReaderPayloadSwapped(obj) ==
    [clerk_id |-> obj.clerk_id, email |-> obj.email,
     display_name |-> obj.display_name, bio |-> obj.bio,
     specialties |-> obj.specialties,
     chat_rate |-> DecimalToFloat(obj.chat_rate),
     call_rate |-> DecimalToFloat(obj.video_rate),
     video_rate |-> DecimalToFloat(obj.call_rate)]

\* The json= body of the request.
ReaderPayload(obj) ==
    [clerk_id |-> obj.clerk_id, email |-> obj.email,
     display_name |-> obj.display_name, bio |-> obj.bio,
     specialties |-> obj.specialties,
     chat_rate |-> DecimalToFloat(obj.chat_rate),
     call_rate |-> DecimalToFloat(obj.call_rate),
     video_rate |-> DecimalToFloat(obj.video_rate)]

\* No try/except around the request: an exception of requests.post leaves
\* the hook.
SyncReaderUncaught(obj, change, resp) ==
    IF ~ShouldProvision(change)
    THEN [sent |-> <<>>, events |-> <<>>, raised |-> FALSE]
    ELSE [sent |-> <<ReaderPayload(obj)>>,
          events |-> <<Call("requests.post", ~resp.raises)>>,
          raised |-> resp.raises]

\* The try block of ReaderProfileAdmin.save_model: at most one request; a
\* status other than 201 does nothing, an exception is printed and swallowed.
SyncReader(obj, change, resp) ==
    IF ~ShouldProvision(change)
    THEN [sent |-> <<>>, events |-> <<>>, raised |-> FALSE]
    ELSE [sent |-> <<ReaderPayload(obj)>>,
          events |-> <<Call("requests.post", ~resp.raises)>>,
          raised |-> FALSE]

\* ReaderProfileAdmin.save_model(request, obj, form, change), the whole
\* handler.  The admin view runs inside transaction.atomic: an exception
\* leaving the handler undoes the write.
ReaderSaveModel(pk, obj, change, resp) ==
    /\ LET saved == ReaderModelSave(readers, pk, obj)
           sync == IF saved.raised
                   THEN [sent |-> <<>>, events |-> <<>>, raised |-> TRUE]
                   ELSE SyncReader(obj, change, resp)
       IN /\ readers' = IF sync.raised THEN readers ELSE saved.store
          /\ requests' = requests \o sync.sent
          /\ last' = [model |-> "Reader", pk |-> saved.pk, change |-> change,
                      arg |-> obj, obj |-> obj, outcome |-> resp,
                      events |-> <<Call("save", ~saved.raised)>> \o sync.events,
                      raised |-> sync.raised]
    /\ UNCHANGED <<products, stripeProducts, stripePrices>>

\* The responses that matter to a save: none is read unless a request is made.
ResponsesFor(change) ==
    IF ShouldProvision(change) THEN Responses
    ELSE {[raises |-> FALSE, status_code |-> HttpCreated]}

\* A new Reader Profile saved.
ReaderAdd ==
    /\ Len(readers) < MaxReaders
    /\ \E clerk_id \in ClerkIds, email \in Emails, rates \in RateCards :
          \E resp \in ResponsesFor(FALSE) :
             ReaderSaveModel(0, NewReader(clerk_id, [email |-> email, rates |-> rates]),
                             FALSE, resp)

\* The admin change view: a stored Reader Profile with the form applied.
ReaderChange ==
    \E pk \in 1..Len(readers), email \in Emails :
        \E resp \in ResponsesFor(TRUE) :
           ReaderSaveModel(pk, EditedReader(readers[pk], [email |-> email]), TRUE, resp)

----------------------------------------------------------------------------

NoSave == [model |-> "none", pk |-> 0, change |-> FALSE, arg |-> <<>>, obj |-> <<>>,
           outcome |-> <<>>, events |-> <<>>, raised |-> FALSE]

Init ==
    /\ products = <<>>
    /\ stripeProducts = <<>>
    /\ stripePrices = <<>>
    /\ readers = <<>>
    /\ requests = <<>>
    /\ last = NoSave

NextProduct == ProductAdd \/ ProductChange

NextPrice == PriceSweepAdd \/ PriceRetry

NextReader == ReaderAdd \/ ReaderChange

Next == ProductAdd \/ ProductChange \/ ReaderAdd \/ ReaderChange

\* The payment-catalog hook alone, the price sweep, the provisioning hook
\* alone, and the whole panel.
SpecProduct == Init /\ [][NextProduct]_vars

SpecPrice == Init /\ [][NextPrice]_vars

SpecReader == Init /\ [][NextReader]_vars

Spec == Init /\ [][Next]_vars

----------------------------------------------------------------------------
(* Vocabulary of the properties *)

\* The amount of a decimal numeral in hundredths, whatever its scale.
Cents(d) == d.coef * Pow10(DecimalPlaces - d.places)

Made(l, name) == {i \in 1..Len(l.events) : l.events[i].call = name}

Returned(l, name) == \E i \in Made(l, name) : l.events[i].ok

Failed(l, name) == \E i \in Made(l, name) : ~l.events[i].ok

StripeCallsMade(l) == Made(l, "Product.create") \cup Made(l, "Price.create")

HasId(row) == Len(row.stripe_product_id) > 0

CreatedFor(pk) == {i \in 1..Len(stripeProducts) : stripeProducts[i].owner = pk}

ProductSave(l) == l.model = "Product"

ReaderSave(l) == l.model = "Reader"

\* No stored Reader Profile has the record's identifier or its email.
Unseen(row) ==
    \A q \in 1..Len(readers) :
        readers[q].clerk_id # row.clerk_id /\ readers[q].email # row.email

PayloadMatches(body, row) ==
    /\ body.clerk_id = row.clerk_id
    /\ body.email = row.email
    /\ body.display_name = row.display_name
    /\ body.bio = row.bio
    /\ body.specialties = row.specialties
    /\ Cents(body.chat_rate) = Cents(row.chat_rate)
    /\ Cents(body.call_rate) = Cents(row.call_rate)
    /\ Cents(body.video_rate) = Cents(row.video_rate)

----------------------------------------------------------------------------
(* Payment-catalog hook *)

\* C1: whatever the payment provider answers, at most one external product
\* resource is ever created for a Product record.
C1_SyncedAtMostOnce ==
    \A pk \in 1..Len(products) : Cardinality(CreatedFor(pk)) <= 1

\* C2: a save in which a payment-provider call raised does not raise to the
\* caller and stores the record with the submitted fields and a blank
\* payment identifier.
C2_StripeFailureStillPersists ==
    (ProductSave(last) /\ (Failed(last, "Product.create") \/ Failed(last, "Price.create")))
        => /\ ~last.raised
           /\ last.pk \in 1..Len(products)
           /\ products[last.pk] = last.arg
           /\ ~HasId(products[last.pk])

\* C7: once a stored Product carries a payment identifier, every later save of
\* it makes no payment-provider call and leaves the identifier as it is.
C7_IdentifierNeverReassigned ==
    [][\A pk \in 1..Len(products) :
          HasId(products[pk]) =>
             /\ products'[pk].stripe_product_id = products[pk].stripe_product_id
             /\ (ProductSave(last') /\ last'.pk = pk) => StripeCallsMade(last') = {}]_vars

C7_Witness ==
    /\ ProductSave(last) /\ last.change /\ ~last.raised
    /\ HasId(last.arg)
    /\ last.events = <<Call("save", TRUE)>>
    /\ products[last.pk].name # stripeProducts[products[last.pk].stripe_product_id[1]].name

\* C8: when a Product without identifier is saved and both external calls
\* return, they come before the write, and the one write stores the submitted
\* fields together with the id of the product created in that save.
C8_IdStoredBySameSave ==
    (ProductSave(last) /\ ~HasId(last.arg)
       /\ Returned(last, "Product.create") /\ Returned(last, "Price.create"))
        => /\ last.events = <<Call("Product.create", TRUE), Call("Price.create", TRUE),
                              Call("save", TRUE)>>
           /\ ~last.raised
           /\ last.pk \in 1..Len(products)
           /\ products[last.pk] =
                 [last.arg EXCEPT !.stripe_product_id = stripeProducts[Len(stripeProducts)].id]
           /\ stripeProducts[Len(stripeProducts)].owner = last.pk

C8_Witness ==
    /\ ProductSave(last) /\ ~HasId(last.arg)
    /\ Returned(last, "Product.create") /\ Returned(last, "Price.create")
    /\ Len(products) = 2 /\ last.pk = 2
    /\ products[2].stripe_product_id = <<2>>

\* C9: the price resource a save creates carries the price in whole cents and
\* the currency "usd", and refers to the product resource created just before
\* it in the same save.
C9_UnitAmountInCents ==
    (ProductSave(last) /\ Returned(last, "Price.create"))
        => LET price == stripePrices[Len(stripePrices)]
           IN /\ price.unit_amount = Cents(last.arg.price)
              /\ price.currency = "usd"
              /\ price.product = stripeProducts[Len(stripeProducts)].id
              /\ last.events[1] = Call("Product.create", TRUE)
              /\ last.events[2] = Call("Price.create", TRUE)

C9_Witness ==
    /\ ProductSave(last) /\ Returned(last, "Price.create")
    /\ last.arg.price = [coef |-> 999, places |-> 2]
    /\ stripePrices[Len(stripePrices)].unit_amount = 999
    /\ Len(stripeProducts) = 2

\* C10: every identifier stored on a Product names a product resource for which
\* a price resource exists, and no two stored Products share an identifier.
C10_StoredIdsArePricedAndDistinct ==
    /\ \A pk \in 1..Len(products) :
          HasId(products[pk]) =>
             /\ \E i \in 1..Len(stripeProducts) :
                   stripeProducts[i].id = products[pk].stripe_product_id
             /\ \E j \in 1..Len(stripePrices) :
                   stripePrices[j].product = products[pk].stripe_product_id
    /\ \A p, q \in 1..Len(products) :
          (p # q /\ HasId(products[p]))
             => products[p].stripe_product_id # products[q].stripe_product_id

C10_Witness ==
    /\ Len(products) = 2
    /\ HasId(products[1]) /\ HasId(products[2])
    /\ Len(stripeProducts) = 2 /\ Len(stripePrices) = 2

----------------------------------------------------------------------------
(* Reader-provisioning hook *)

\* C3: saving a new Reader Profile whose identifier and email no stored
\* profile has stores it and then issues exactly one provisioning request,
\* whose fields are those of the stored record.
C3_CreationProvisionsOnce ==
    [][(ReaderSave(last') /\ ~last'.change /\ Unseen(last'.arg))
          => /\ ~last'.raised
             /\ readers' = Append(readers, last'.arg)
             /\ last'.pk = Len(readers')
             /\ Len(requests') = Len(requests) + 1
             /\ SubSeq(requests', 1, Len(requests)) = requests
             /\ PayloadMatches(requests'[Len(requests')], readers'[last'.pk])
             /\ Len(last'.events) = 2
             /\ last'.events[1] = Call("save", TRUE)
             /\ last'.events[2].call = "requests.post"]_vars

C3_Witness ==
    /\ ReaderSave(last) /\ ~last.change /\ ~last.raised
    /\ Len(readers) = 2 /\ last.pk = 2 /\ Len(requests) = 2
    /\ readers[2].chat_rate = [coef |-> 300, places |-> 2]
    /\ requests[2].chat_rate = [coef |-> 3, places |-> 0]
    /\ last.outcome.status_code = HttpCreated

\* C4: a save of an existing Reader Profile issues no provisioning request.
C4_EditNeverProvisions ==
    [][(ReaderSave(last') /\ last'.change)
          => /\ requests' = requests
             /\ Made(last', "requests.post") = {}]_vars

C4_Witness ==
    /\ ReaderSave(last) /\ last.change /\ ~last.raised
    /\ Len(requests) = Len(readers)
    /\ readers[last.pk].email # requests[last.pk].email

\* C5: when the provisioning request of a new Reader Profile fails, the
\* profile stays stored as saved, save_model returns normally, and no second
\* request is issued by that save.
C5_ProvisioningFailureKeepsProfile ==
    (ReaderSave(last) /\ Made(last, "requests.post") # {}
       /\ (last.outcome.raises \/ last.outcome.status_code # HttpCreated))
        => /\ ~last.raised
           /\ last.pk \in 1..Len(readers)
           /\ readers[last.pk] = last.arg
           /\ Cardinality(Made(last, "requests.post")) = 1
           /\ Len(requests) = Len(readers)

C5_Witness ==
    /\ ReaderSave(last) /\ ~last.change
    /\ Made(last, "requests.post") # {}
    /\ last.outcome.raises
    /\ readers[last.pk] = last.arg

\* C6: creating a Reader Profile whose identifier a stored profile already has
\* is rejected: nothing is stored, and no provisioning request is issued.
C6_DuplicateRejectedBeforeProvisioning ==
    [][(ReaderSave(last') /\ ~last'.change
          /\ \E q \in 1..Len(readers) : readers[q].clerk_id = last'.arg.clerk_id)
          => /\ last'.raised
             /\ readers' = readers
             /\ requests' = requests
             /\ last'.events = <<Call("save", FALSE)>>]_vars

C6_Witness ==
    /\ ReaderSave(last) /\ ~last.change /\ last.raised
    /\ \E q \in 1..Len(readers) :
          /\ readers[q].clerk_id = last.arg.clerk_id
          /\ readers[q].email # last.arg.email
    /\ Len(requests) = 1

====
